---- MODULE Spec2Model ----
(***************************************************************************)
(* Model of the context aggregation of src/services/atlassian_client.py:   *)
(* AtlassianClient.get_issue_context and the three branches it gathers,    *)
(* of the enrichment of src/services/ai_service.py and of the endpoint     *)
(* GET /api/context/{issue_key} of src/main.py.                            *)
(*                                                                         *)
(* Python values: a dict is a function on its keys (a TLA+ record), a list *)
(* is a sequence, None is the record None.  A str the code inspects        *)
(* character by character (issue key, commit message, issue type name) is  *)
(* a sequence of one-character strings; a str the code only copies is a    *)
(* TLA+ string.  A function that can raise yields Value(v) or Raised.      *)
(***************************************************************************)
EXTENDS Integers, Sequences, FiniteSets, TLC

VARIABLES
    issue_key,      \* argument of get_issue_context
    remote,         \* what the upstream services answer to each GET
    pc,             \* position of get_issue_context
    issue_data,     \* local issue_data of get_issue_context
    docs_task,      \* the _get_confluence_docs coroutine
    commits_task,   \* the _get_bitbucket_commits coroutine
    tickets_task,   \* the _get_linked_service_tickets coroutine
    inflight,       \* GETs issued and not yet answered
    requests,       \* every GET issued so far, in issue order
    result,         \* what get_issue_context returned or raised
    openai_api_key, \* os.getenv('OPENAI_API_KEY')
    llm,            \* the outcome of each language-model call
    enhanced,       \* a call of enhance_with_ai: its argument and return
    response        \* what GET /api/context/{issue_key} responded

vars ==
    <<issue_key, remote, pc, issue_data, docs_task, commits_task,
      tickets_task, inflight, requests, result, openai_api_key, llm,
      enhanced, response>>

\* what the aggregator never touches
enrichVars ==
    <<openai_api_key, llm, enhanced, response>>

---------------------------------------------------------------------------
(* Bounds of the explored inputs                                           *)

\* repositories in a listing
MaxRepos ==
    4

\* links of an issue
MaxLinks ==
    3

\* distinct pages of search results (page s holds DocWidth documents and
\* shares two of them with page s + 1)
MaxDocStart ==
    4

DocWidth ==
    5

\* commits in the longest commit list
MaxCommits ==
    16

(* Program constants                                                       *)

\* unique_docs[:8]
DocCap ==
    8

\* commits[:15]
CommitCap ==
    15

\* repos_data['values'][:3]
RepoLimit ==
    3

\* len(search_queries)
NumQueries ==
    3

---------------------------------------------------------------------------
(* Python values                                                           *)

None ==
    [py |-> "None"]

EmptyDict ==
    [k \in {} |-> 0]

\* a truth test that takes only the empty dict for false
FalsyOnlyEmpty(x) ==
    DOMAIN x = {}

\* `not x` for x a dict or None
Falsy(x) ==
    x = None \/ DOMAIN x = {}

\* isinstance(x, dict)
IsDict(x) ==
    x # None

\* d.get(k, default)
Get(d, k, default) ==
    IF k \in DOMAIN d THEN d[k] ELSE default

Value(v) ==
    [kind |-> "value", val |-> v]

Raised ==
    [kind |-> "raised", val |-> <<>>]

Min(a, b) ==
    IF a < b THEN a ELSE b

\* s[:n]
Take(s, n) ==
    SubSeq(s, 1, Min(n, Len(s)))

Lowers ==
    <<"a","b","c","d","e","f","g","h","i","j","k","l","m",
      "n","o","p","q","r","s","t","u","v","w","x","y","z">>

Uppers ==
    <<"A","B","C","D","E","F","G","H","I","J","K","L","M",
      "N","O","P","Q","R","S","T","U","V","W","X","Y","Z">>

UpperChar(c) ==
    IF \E i \in 1..26 : Lowers[i] = c
    THEN Uppers[CHOOSE i \in 1..26 : Lowers[i] = c]
    ELSE c

LowerChar(c) ==
    IF \E i \in 1..26 : Uppers[i] = c
    THEN Lowers[CHOOSE i \in 1..26 : Uppers[i] = c]
    ELSE c

\* str.upper()
Upper(s) ==
    [i \in 1..Len(s) |-> UpperChar(s[i])]

\* str.lower()
Lower(s) ==
    [i \in 1..Len(s) |-> LowerChar(s[i])]

\* sub in s
Contains(s, sub) ==
    \E i \in 0..(Len(s) - Len(sub)) : SubSeq(s, i + 1, i + Len(sub)) = sub

---------------------------------------------------------------------------
(* Remote Fetcher                                                          *)

\* a fetcher that answers 404 by an empty object, apart from None
MakeAsyncRequestAbsent(o) ==
    IF o.net = "error" THEN None
    ELSE IF o.status = 200 THEN o.body
    ELSE IF o.status = 404 THEN EmptyDict
    ELSE None

\* _make_async_request: the JSON body on 200, None on 404, on any other
\* status and on an exception of the transport.
MakeAsyncRequest(o) ==
    IF o.net = "error" THEN None
    ELSE IF o.status = 200 THEN o.body
    ELSE IF o.status = 404 THEN None
    ELSE None

\* _make_sync_request: as _make_async_request, through requests.get
MakeSyncRequest(o) ==
    IF o.net = "error" THEN None
    ELSE IF o.status = 200 THEN o.body
    ELSE IF o.status = 404 THEN None
    ELSE None

\* _make_request with async_op left at its default
MakeRequest(o) ==
    MakeAsyncRequest(o)

---------------------------------------------------------------------------
(* Document search: the fan-in of _get_confluence_docs                     *)

DocFields ==
    {"id", "title", "type", "_links"}

\* the record appended to docs for one upstream doc
DocRecord(doc) ==
    [id |-> doc.id,
     title |-> doc.title,
     type |-> doc.type,
     lastModified |-> Get(Get(doc, "version", EmptyDict), "when", ""),
     _links |-> doc._links]

\* the upstream docs one query contributes
QueryDocs(res) ==
    IF IsDict(res) /\ "results" \in DOMAIN res THEN res.results ELSE <<>>

\* the upstream docs of the three queries, in query order
CandidateDocs(results) ==
    QueryDocs(results[1]) \o QueryDocs(results[2]) \o QueryDocs(results[3])

RECURSIVE UniqueDocsLoop(_, _, _)
UniqueDocsLoop(docs, seen_ids, unique_docs) ==
    IF docs = <<>> THEN unique_docs
    ELSE IF Head(docs).id \notin seen_ids
         THEN UniqueDocsLoop(Tail(docs), seen_ids \cup {Head(docs).id},
                             Append(unique_docs, Head(docs)))
         ELSE UniqueDocsLoop(Tail(docs), seen_ids, unique_docs)

\* no deduplication
UniqueDocsKeepAll(docs) ==
    docs

UniqueDocs(docs) ==
    UniqueDocsLoop(docs, {}, <<>>)

\* the fan-in without the isinstance test: 'results' in None raises
ConfluenceDocsUnguarded(results) ==
    IF \E q \in 1..NumQueries : results[q] = None THEN Raised
    ELSE LET raw == CandidateDocs(results) IN
         IF \E i \in 1..Len(raw) : ~(DocFields \subseteq DOMAIN raw[i])
         THEN Raised
         ELSE Value(Take(UniqueDocs([i \in 1..Len(raw) |-> DocRecord(raw[i])]),
                         DocCap))

\* what _get_confluence_docs does once its gather has the three results
ConfluenceDocs(results) ==
    LET raw == CandidateDocs(results) IN
    IF \E i \in 1..Len(raw) : ~(DocFields \subseteq DOMAIN raw[i])
    THEN Raised
    ELSE Value(Take(UniqueDocs([i \in 1..Len(raw) |-> DocRecord(raw[i])]),
                    DocCap))

---------------------------------------------------------------------------
(* Commit search: _get_commits_for_repo and the fan-in of                  *)
(* _get_bitbucket_commits                                                  *)

CommitMatches(commit, key) ==
    Contains(Upper(Get(commit, "message", <<>>)), Upper(key))

CommitRecord(commit, repo_name, repo_slug) ==
    [id |-> commit.id,
     message |-> Get(commit, "message", <<>>),
     author |-> Get(commit.author, "displayName", "Unknown"),
     authorTimestamp |-> commit.authorTimestamp,
     repository |-> repo_name,
     repoSlug |-> repo_slug]

CommitFields ==
    {"id", "author", "authorTimestamp"}

\* values.filter(matching), as a sequence
RECURSIVE MatchingCommits(_, _)
MatchingCommits(values, key) ==
    IF values = <<>> THEN <<>>
    ELSE IF CommitMatches(Head(values), key)
         THEN <<Head(values)>> \o MatchingCommits(Tail(values), key)
         ELSE MatchingCommits(Tail(values), key)

\* _get_commits_for_repo, given the answer to its GET
CommitsForRepo(commits_data, repo_name, repo_slug, key) ==
    IF ~Falsy(commits_data) /\ "values" \in DOMAIN commits_data
    THEN LET m == MatchingCommits(commits_data.values, key) IN
         IF \E i \in 1..Len(m) : ~(CommitFields \subseteq DOMAIN m[i])
         THEN Raised
         ELSE Value([i \in 1..Len(m) |->
                        CommitRecord(m[i], repo_name, repo_slug)])
    ELSE Value(<<>>)

\* commits.extend(commit_list) for every list in repo_commits
RECURSIVE ExtendAll(_)
ExtendAll(repo_commits) ==
    IF repo_commits = <<>> THEN <<>>
    ELSE IF Head(repo_commits).kind = "value"
         THEN Head(repo_commits).val \o ExtendAll(Tail(repo_commits))
         ELSE ExtendAll(Tail(repo_commits))

\* no cap
CollectCommitsUncapped(repo_commits) ==
    ExtendAll(repo_commits)

\* lines 201-205: the value _get_bitbucket_commits returns
CollectCommits(repo_commits) ==
    Take(ExtendAll(repo_commits), CommitCap)

---------------------------------------------------------------------------
(* Linked-ticket extraction                                                *)

Keywords ==
    << <<"s","e","r","v","i","c","e">>,
       <<"r","e","q","u","e","s","t">>,
       <<"i","n","c","i","d","e","n","t">>,
       <<"p","r","o","b","l","e","m">> >>

\* the outward side only
LinkedIssueOutwardOnly(link) ==
    Get(link, "outwardIssue", None)

\* link.get('outwardIssue') or link.get('inwardIssue')
LinkedIssue(link) ==
    IF ~Falsy(Get(link, "outwardIssue", None))
    THEN link.outwardIssue
    ELSE Get(link, "inwardIssue", None)

LinkedWellFormed(li) ==
    /\ "fields" \in DOMAIN li
    /\ "issuetype" \in DOMAIN li.fields
    /\ "name" \in DOMAIN li.fields.issuetype

IsServiceType(name) ==
    \E k \in 1..Len(Keywords) : Contains(Lower(name), Keywords[k])

TicketFields ==
    {"summary", "status"}

TicketRecord(li) ==
    [key |-> li.key,
     summary |-> li.fields.summary,
     status |-> li.fields.status.name,
     issueType |-> li.fields.issuetype.name,
     priority |-> Get(Get(li.fields, "priority", EmptyDict), "name", "Not set")]

\* the loop over links; Raised when a subscript fails
RECURSIVE TicketsLoop(_, _)
TicketsLoop(links, service_tickets) ==
    IF links = <<>> THEN Value(service_tickets)
    ELSE LET li == LinkedIssue(Head(links)) IN
         IF Falsy(li) THEN TicketsLoop(Tail(links), service_tickets)
         ELSE IF ~LinkedWellFormed(li) THEN Raised
         ELSE IF IsServiceType(li.fields.issuetype.name)
              THEN IF /\ "key" \in DOMAIN li
                      /\ TicketFields \subseteq DOMAIN li.fields
                      /\ "name" \in DOMAIN li.fields.status
                   THEN TicketsLoop(Tail(links),
                                    Append(service_tickets, TicketRecord(li)))
                   ELSE Raised
              ELSE TicketsLoop(Tail(links), service_tickets)

\* the extraction without the test of line 236: None['fields'] raises
LinkedServiceTicketsUnguarded(data) ==
    IF Falsy(data) \/ "fields" \notin DOMAIN data
    THEN Raised
    ELSE TicketsLoop(Get(data.fields, "issuelinks", <<>>), <<>>)

\* _get_linked_service_tickets, given the answer to its GET
LinkedServiceTickets(data) ==
    IF Falsy(data) \/ "fields" \notin DOMAIN data
    THEN Value(<<>>)
    ELSE TicketsLoop(Get(data.fields, "issuelinks", <<>>), <<>>)

---------------------------------------------------------------------------
(* Aggregator: what get_issue_context does with the gathered outcomes      *)

\* line 93
NotFound(key) ==
    [error |-> <<"Issue ", key, " not found or inaccessible">>]

\* line 95 evaluates without a KeyError
HasProjectKey(data) ==
    /\ "fields" \in DOMAIN data
    /\ "project" \in DOMAIN data.fields
    /\ "key" \in DOMAIN data.fields.project

\* lines 118-121 evaluate without a KeyError
HasIssueFields(data) ==
    /\ "summary" \in DOMAIN data.fields
    /\ "status" \in DOMAIN data.fields
    /\ "name" \in DOMAIN data.fields.status
    /\ "issuetype" \in DOMAIN data.fields
    /\ "name" \in DOMAIN data.fields.issuetype

\* lines 105-113: gather(return_exceptions=True) hands over the exception
\* of a branch that raised, and the aggregator replaces it by []
Absorb(ret) ==
    IF ret.kind = "raised" THEN <<>> ELSE ret.val

\* lines 115-126
AssembleContext(key, data, confluence_docs, bitbucket_commits, service_tickets) ==
    IF HasIssueFields(data)
    THEN Value([issue |-> [key |-> key,
                           summary |-> data.fields.summary,
                           project |-> data.fields.project.key,
                           status |-> data.fields.status.name,
                           issueType |-> data.fields.issuetype.name],
                confluenceDocs |-> confluence_docs,
                bitbucketCommits |-> bitbucket_commits,
                serviceTickets |-> service_tickets])
    ELSE Raised

---------------------------------------------------------------------------
(* Enrichment: AIService of src/services/ai_service.py.  Every str of the  *)
(* enrichment is a sequence of one-character strings; the bullet U+2022 is *)
(* the one-character string "U+2022".                                      *)

\* if len(commit.get('message', '')) > 100
LongMessage ==
    100

\* commit['message'][:80]
FallbackLen ==
    80

\* for commit in commits[:3]
SummarizedCommits ==
    3

\* suggestions[:3]
SuggestionCap ==
    3

NotConfigured ==
    <<"A","I"," ","f","e","a","t","u","r","e","s"," ","n","o","t"," ","c",
      "o","n","f","i","g","u","r","e","d">>

TemporarilyUnavailable ==
    <<"A","I"," ","a","n","a","l","y","s","i","s"," ","t","e","m","p","o",
      "r","a","r","i","l","y"," ","u","n","a","v","a","i","l","a","b","l",
      "e">>

ServiceUnavailable ==
    <<"A","I"," ","s","e","r","v","i","c","e"," ","u","n","a","v","a","i",
      "l","a","b","l","e">>

UnableToSummarize ==
    <<"U","n","a","b","l","e"," ","t","o"," ","g","e","n","e","r","a","t",
      "e"," ","A","I"," ","s","u","m","m","a","r","y"," ","a","t"," ","t",
      "h","i","s"," ","t","i","m","e",".">>

DefaultSuggestions ==
    <<
      <<"C","h","e","c","k"," ","r","e","l","a","t","e","d"," ","d","o","c",
        "u","m","e","n","t","s">>,
      <<"R","e","v","i","e","w"," ","r","e","c","e","n","t"," ","c","o","m",
        "m","i","t","s">>,
      <<"V","e","r","i","f","y"," ","s","e","r","v","i","c","e"," ","d","e",
        "p","e","n","d","e","n","c","i","e","s">>
    >>

RECURSIVE LStrip(_)
LStrip(s) ==
    IF s # <<>> /\ Head(s) \in {" ", "\n", "\t"} THEN LStrip(Tail(s)) ELSE s

RECURSIVE RStrip(_)
RStrip(s) ==
    IF s # <<>> /\ s[Len(s)] \in {" ", "\n", "\t"}
    THEN RStrip(SubSeq(s, 1, Len(s) - 1))
    ELSE s

\* str.strip()
Strip(s) ==
    RStrip(LStrip(s))

\* str.split(sep), sep one character
RECURSIVE Split(_, _)
Split(s, sep) ==
    IF \A i \in 1..Len(s) : s[i] # sep THEN <<s>>
    ELSE LET i == CHOOSE i \in 1..Len(s) :
                     s[i] = sep /\ \A j \in 1..(i - 1) : s[j] # sep
         IN  <<SubSeq(s, 1, i - 1)>> \o Split(SubSeq(s, i + 1, Len(s)), sep)

\* str.replace(old, '')
RECURSIVE Remove(_, _)
Remove(s, old) ==
    IF Len(s) < Len(old) THEN s
    ELSE IF SubSeq(s, 1, Len(old)) = old
         THEN Remove(SubSeq(s, Len(old) + 1, Len(s)), old)
         ELSE <<Head(s)>> \o Remove(Tail(s), old)

\* d[k] = v
SetItem(d, k, v) ==
    [x \in DOMAIN d \cup {k} |-> IF x = k THEN v ELSE d[x]]

\* the environment variable: None when unset
ApiKey ==
    [py |-> "str", val |-> "sk-test"]

\* AIService(): self.api_key = os.getenv('OPENAI_API_KEY')
AIService(key) ==
    [api_key |-> key]

is_enabled(self) ==
    self.api_key # None

\* the outcomes of openai.ChatCompletion.create: a completion with text
\* content, a completion whose content is None, an exception
Completion(text) ==
    [kind |-> "text", content |-> text]

NullCompletion ==
    [kind |-> "null", content |-> <<>>]

LMError ==
    [kind |-> "error", content |-> <<>>]

\* response.choices[0].message.content.strip()
Content(answer) ==
    IF answer.kind = "text" THEN Value(Strip(answer.content)) ELSE Raised

\* lines 62-69 and 114-121: context_data.get('issue', {}).get(...) and the
\* len() of the three lists
ReadsContext(context_data) ==
    IsDict(Get(context_data, "issue", EmptyDict))

\* _generate_context_summary
GenerateContextSummary(self, context_data, answer) ==
    IF ~is_enabled(self) THEN Value(ServiceUnavailable)
    ELSE IF ~ReadsContext(context_data) THEN Raised
    ELSE IF Content(answer).kind = "value" THEN Content(answer)
    ELSE Value(UnableToSummarize)

\* s.strip().replace('- ', '').replace(bullet + ' ', '').replace('* ', '')
Unmarked(s) ==
    Remove(Remove(Remove(Strip(s), <<"-", " ">>), <<"U+2022", " ">>),
           <<"*", " ">>)

\* [... for s in lines if s.strip()]
RECURSIVE SuggestionLines(_)
SuggestionLines(lines) ==
    IF lines = <<>> THEN <<>>
    ELSE IF Strip(Head(lines)) = <<>> THEN SuggestionLines(Tail(lines))
    ELSE <<Unmarked(Head(lines))>> \o SuggestionLines(Tail(lines))

\* _generate_suggestions
GenerateSuggestions(self, context_data, answer) ==
    IF ~is_enabled(self) THEN Value(DefaultSuggestions)
    ELSE IF ~ReadsContext(context_data) THEN Raised
    ELSE IF Content(answer).kind = "value"
         THEN LET suggestions ==
                    SuggestionLines(Split(Content(answer).val, "\n"))
              IN  IF suggestions # <<>>
                  THEN Value(Take(suggestions, SuggestionCap))
                  ELSE Value(DefaultSuggestions)
         ELSE Value(DefaultSuggestions)

\* the loop of _summarize_commits from commit i on, answers[i] the outcome
\* of the model call for commit i; the commits are changed in place, so
\* they keep what the loop did when it raises
RECURSIVE SummarizeLoop(_, _, _)
SummarizeLoop(commits, answers, i) ==
    IF i > Min(SummarizedCommits, Len(commits))
    THEN [commits |-> commits, raised |-> FALSE]
    ELSE IF ~IsDict(commits[i])
    THEN [commits |-> commits, raised |-> TRUE]
    ELSE IF Len(Get(commits[i], "message", <<>>)) > LongMessage
    THEN SummarizeLoop(
            [commits EXCEPT ![i] =
                SetItem(@, "aiSummary",
                        IF Content(answers[i]).kind = "value"
                        THEN Content(answers[i]).val
                        ELSE Take(@.message, FallbackLen) \o <<".", ".", ".">>)],
            answers, i + 1)
    ELSE SummarizeLoop(commits, answers, i + 1)

\* a summarizer that returns the slice it looped over
SummarizeCommitsSlice(self, commits, answers) ==
    IF ~is_enabled(self) \/ commits = <<>>
    THEN [commits |-> commits, raised |-> FALSE]
    ELSE SummarizeLoop(Take(commits, SummarizedCommits), answers, 1)

\* _summarize_commits
SummarizeCommits(self, commits, answers) ==
    IF ~is_enabled(self) \/ commits = <<>>
    THEN [commits |-> commits, raised |-> FALSE]
    ELSE SummarizeLoop(commits, answers, 1)

\* lines 35-48, the body of the try of enhance_with_ai: context_data as
\* the body leaves it, and whether the body raised
TryEnhance(self, context_data, lm) ==
    LET summary == GenerateContextSummary(self, context_data, lm.summary)
        suggestions == GenerateSuggestions(self, context_data, lm.suggestions)
    IN
    IF summary.kind = "raised"
    THEN [context_data |-> context_data, raised |-> TRUE]
    ELSE IF suggestions.kind = "raised"
    THEN [context_data |-> SetItem(context_data, "aiSummary", summary.val),
          raised |-> TRUE]
    ELSE LET with == SetItem(SetItem(context_data, "aiSummary", summary.val),
                             "aiSuggestions", suggestions.val)
         IN
         IF "bitbucketCommits" \in DOMAIN context_data
         THEN LET summarized ==
                     SummarizeCommits(self, context_data.bitbucketCommits,
                                      lm.commits)
              IN  [context_data |->
                      [with EXCEPT !.bitbucketCommits = summarized.commits],
                   raised |-> summarized.raised]
         ELSE [context_data |-> with, raised |-> FALSE]

\* enhance_with_ai without its handlers: a failed model call raises
EnhanceWithAIUncaught(self, context_data, lm) ==
    IF ~is_enabled(self)
    THEN Value(SetItem(SetItem(context_data, "aiSummary", NotConfigured),
                       "aiSuggestions", <<>>))
    ELSE IF \/ TryEnhance(self, context_data, lm).raised
            \/ Content(lm.summary).kind = "raised"
            \/ Content(lm.suggestions).kind = "raised"
            \/ \E i \in DOMAIN lm.commits :
                  Content(lm.commits[i]).kind = "raised"
    THEN Raised
    ELSE Value(TryEnhance(self, context_data, lm).context_data)

\* enhance_with_ai
EnhanceWithAI(self, context_data, lm) ==
    IF ~is_enabled(self)
    THEN Value(SetItem(SetItem(context_data, "aiSummary", NotConfigured),
                       "aiSuggestions", <<>>))
    ELSE LET try == TryEnhance(self, context_data, lm) IN
         IF try.raised
         THEN Value(SetItem(SetItem(try.context_data, "aiSummary",
                                    TemporarilyUnavailable),
                            "aiSuggestions", <<>>))
         ELSE Value(try.context_data)

---------------------------------------------------------------------------
(* The endpoint GET /api/context/{issue_key} of src/main.py                *)

\* ai_service = AIService() if os.getenv('OPENAI_API_KEY') else None
ai_service ==
    IF openai_api_key # None THEN AIService(openai_api_key) ELSE None

\* what calling an async def without await yields
Coroutine ==
    [py |-> "coroutine"]

\* datetime.utcnow().isoformat()
Now ==
    "2024-01-01T00:00:00"

NoResponse ==
    [status |-> 0, body |-> EmptyDict]

\* lines 122-140 of get_context, for the value line 120 binds to
\* context_data
GetContextResponse(context_data, service, lm) ==
    IF context_data = Coroutine
    THEN [status |-> 500, body |-> EmptyDict]
    ELSE IF "error" \in DOMAIN context_data
    THEN [status |-> 404, body |-> [detail |-> context_data.error]]
    ELSE LET ai == service # None /\ is_enabled(service)
             enhanced_data == IF ai
                              THEN EnhanceWithAI(service, context_data, lm).val
                              ELSE context_data
         IN  [status |-> 200,
              body |-> SetItem(SetItem(enhanced_data, "lastUpdated", Now),
                               "aiEnabled", ai)]

---------------------------------------------------------------------------
(* The GETs                                                                *)

IssueReq(key) ==
    [kind |-> "issue", idx |-> 0, key |-> key, project |-> ""]

\* search_queries: the issue key twice, then the project key
DocReq(q, key, project_key) ==
    [kind |-> "doc", idx |-> q,
     key |-> IF q < NumQueries THEN key ELSE <<>>,
     project |-> IF q < NumQueries THEN "" ELSE project_key]

ReposReq(project_key) ==
    [kind |-> "repos", idx |-> 0, key |-> <<>>, project |-> project_key]

CommitsReq(i, project_key) ==
    [kind |-> "commits", idx |-> i, key |-> <<>>, project |-> project_key]

LinksReq(key) ==
    [kind |-> "links", idx |-> 0, key |-> key, project |-> ""]

---------------------------------------------------------------------------
(* Coroutine states                                                        *)

Pending ==
    [kind |-> "pending", val |-> <<>>]

DocsIdle ==
    [pc |-> "idle", answered |-> {}, results |-> <<None, None, None>>,
     ret |-> Pending]

\* i: the repository of the current loop iteration; child: the outcome of
\* its _get_commits_for_repo coroutine; repo_commits: the local of line 199
CommitsIdle ==
    [pc |-> "idle", repos |-> <<>>, i |-> 0, child |-> Pending,
     repo_commits |-> <<>>, ret |-> Pending]

TicketsIdle ==
    [pc |-> "idle", ret |-> Pending]

ProjectKey ==
    issue_data.fields.project.key

---------------------------------------------------------------------------
(* Actions                                                                 *)

\* the link refetch issued together with the lookup
GetIssueContextEager ==
    /\ UNCHANGED enrichVars
    /\ pc = "start"
    /\ pc' = "lookup"
    /\ requests' = <<IssueReq(issue_key), LinksReq(issue_key)>>
    /\ inflight' = {IssueReq(issue_key), LinksReq(issue_key)}
    /\ UNCHANGED <<issue_key, remote, issue_data, docs_task, commits_task,
                   tickets_task, result>>

\* get_issue_context is called and awaits _get_issue_data
GetIssueContext ==
    /\ UNCHANGED enrichVars
    /\ pc = "start"
    /\ pc' = "lookup"
    /\ requests' = Append(requests, IssueReq(issue_key))
    /\ inflight' = inflight \cup {IssueReq(issue_key)}
    /\ UNCHANGED <<issue_key, remote, issue_data, docs_task, commits_task,
                   tickets_task, result>>

\* lines 91-103: the lookup is answered; not found, or the three branches
\* start and each issues its first GETs
IssueLookupDone ==
    /\ UNCHANGED enrichVars
    /\ pc = "lookup"
    /\ IssueReq(issue_key) \in inflight
    /\ LET data == MakeRequest(remote.issue) IN
       /\ issue_data' = data
       /\ IF Falsy(data)
          THEN /\ result' = Value(NotFound(issue_key))
               /\ pc' = "done"
               /\ inflight' = inflight \ {IssueReq(issue_key)}
               /\ UNCHANGED <<requests, docs_task, commits_task, tickets_task>>
          ELSE IF ~HasProjectKey(data)
          THEN /\ result' = Raised
               /\ pc' = "done"
               /\ inflight' = inflight \ {IssueReq(issue_key)}
               /\ UNCHANGED <<requests, docs_task, commits_task, tickets_task>>
          ELSE LET project_key == data.fields.project.key
                   gets == <<DocReq(1, issue_key, project_key),
                             DocReq(2, issue_key, project_key),
                             DocReq(3, issue_key, project_key),
                             ReposReq(project_key),
                             LinksReq(issue_key)>>
               IN
               /\ pc' = "gather"
               /\ docs_task' = [DocsIdle EXCEPT !.pc = "gather"]
               /\ commits_task' = [CommitsIdle EXCEPT !.pc = "listing"]
               /\ tickets_task' = [TicketsIdle EXCEPT !.pc = "refetch"]
               /\ requests' = requests \o gets
               /\ inflight' = (inflight \ {IssueReq(issue_key)})
                                 \cup {gets[n] : n \in 1..Len(gets)}
               /\ UNCHANGED result
    /\ UNCHANGED <<issue_key, remote>>

\* the answers kept in the order they arrive
DocQueryDoneArrival(q) ==
    /\ UNCHANGED enrichVars
    /\ docs_task.pc = "gather"
    /\ DocReq(q, issue_key, ProjectKey) \in inflight
    /\ inflight' = inflight \ {DocReq(q, issue_key, ProjectKey)}
    /\ docs_task' = [docs_task EXCEPT
                        !.answered = @ \cup {q},
                        !.results[Cardinality(docs_task.answered) + 1] =
                            MakeRequest(remote.docs[q])]
    /\ UNCHANGED <<issue_key, remote, pc, issue_data, commits_task,
                   tickets_task, requests, result>>

\* one of the three search GETs is answered
DocQueryDone(q) ==
    /\ UNCHANGED enrichVars
    /\ docs_task.pc = "gather"
    /\ DocReq(q, issue_key, ProjectKey) \in inflight
    /\ inflight' = inflight \ {DocReq(q, issue_key, ProjectKey)}
    /\ docs_task' = [docs_task EXCEPT
                        !.answered = @ \cup {q},
                        !.results[q] = MakeRequest(remote.docs[q])]
    /\ UNCHANGED <<issue_key, remote, pc, issue_data, commits_task,
                   tickets_task, requests, result>>

\* lines 152-173: the inner gather has all three results
DocsFanIn ==
    /\ UNCHANGED enrichVars
    /\ docs_task.pc = "gather"
    /\ docs_task.answered = 1..NumQueries
    /\ docs_task' = [docs_task EXCEPT
                        !.pc = "done",
                        !.ret = ConfluenceDocs(docs_task.results)]
    /\ UNCHANGED <<issue_key, remote, pc, issue_data, commits_task,
                   tickets_task, inflight, requests, result>>

\* lines 190-197 for repository i: Raised when repo['slug'] or repo['name']
\* fails, else the GET of its commits is issued and line 199 awaits it
EnterIteration(task, i) ==
    IF {"slug", "name"} \subseteq DOMAIN task.repos[i]
    THEN /\ commits_task' = [task EXCEPT !.pc = "gather", !.i = i,
                                         !.child = Pending]
         /\ requests' = Append(requests, CommitsReq(i, ProjectKey))
         /\ inflight' = (inflight \ {ReposReq(ProjectKey)})
                           \cup {CommitsReq(i, ProjectKey)}
    ELSE /\ commits_task' = [task EXCEPT !.pc = "done", !.ret = Raised]
         /\ inflight' = inflight \ {ReposReq(ProjectKey)}
         /\ UNCHANGED requests

\* lines 183-199: the repository listing is answered
ReposListed ==
    /\ UNCHANGED enrichVars
    /\ commits_task.pc = "listing"
    /\ ReposReq(ProjectKey) \in inflight
    /\ LET repos_data == MakeRequest(remote.repos) IN
       IF Falsy(repos_data) \/ "values" \notin DOMAIN repos_data
       THEN /\ commits_task' = [commits_task EXCEPT !.pc = "done",
                                                    !.ret = Value(<<>>)]
            /\ inflight' = inflight \ {ReposReq(ProjectKey)}
            /\ UNCHANGED requests
       ELSE LET repos == Take(repos_data.values, RepoLimit) IN
            IF repos = <<>>
            THEN \* the loop body never runs: repo_commits is unbound at 201
                 /\ commits_task' = [commits_task EXCEPT !.pc = "done",
                                                         !.ret = Raised]
                 /\ inflight' = inflight \ {ReposReq(ProjectKey)}
                 /\ UNCHANGED requests
            ELSE EnterIteration([commits_task EXCEPT !.repos = repos], 1)
    /\ UNCHANGED <<issue_key, remote, pc, issue_data, docs_task,
                   tickets_task, result>>

\* lines 208-226: the commits GET of the current repository is answered
CommitFetchDone ==
    /\ UNCHANGED enrichVars
    /\ commits_task.pc = "gather"
    /\ CommitsReq(commits_task.i, ProjectKey) \in inflight
    /\ inflight' = inflight \ {CommitsReq(commits_task.i, ProjectKey)}
    /\ LET repo == commits_task.repos[commits_task.i] IN
       commits_task' =
          [commits_task EXCEPT !.child =
              CommitsForRepo(MakeRequest(remote.commits[commits_task.i]),
                             repo.name, repo.slug, issue_key)]
    /\ UNCHANGED <<issue_key, remote, pc, issue_data, docs_task,
                   tickets_task, requests, result>>

\* line 199 inside the loop: gather(*commit_tasks) over the coroutines of
\* repositories 1..i.  Those of 1..i-1 were awaited by the previous
\* iterations, so gather reports a RuntimeError for each of them.
GatherCommitTasks(i, child) ==
    [n \in 1..i |-> IF n < i THEN Raised ELSE child]

\* lines 199-205: the gather of iteration i returns; next repository, or
\* the loop ends and the commits are collected
CommitsLoopStep ==
    /\ UNCHANGED enrichVars
    /\ commits_task.pc = "gather"
    /\ commits_task.child # Pending
    /\ LET task == [commits_task EXCEPT !.repo_commits =
                       GatherCommitTasks(commits_task.i, commits_task.child)]
       IN
       IF task.i < Len(task.repos)
       THEN EnterIteration(task, task.i + 1)
       ELSE /\ commits_task' =
                  [task EXCEPT !.pc = "done",
                               !.ret = Value(CollectCommits(task.repo_commits))]
            /\ UNCHANGED <<inflight, requests>>
    /\ UNCHANGED <<issue_key, remote, pc, issue_data, docs_task,
                   tickets_task, result>>

\* the refetch repeated once when it yields no data
LinksDoneRetry ==
    /\ UNCHANGED enrichVars
    /\ tickets_task.pc = "refetch"
    /\ LinksReq(issue_key) \in inflight
    /\ IF /\ MakeRequest(remote.links) = None
          /\ Cardinality({n \in 1..Len(requests) :
                             requests[n] = LinksReq(issue_key)}) = 1
       THEN /\ requests' = Append(requests, LinksReq(issue_key))
            /\ UNCHANGED <<inflight, tickets_task>>
       ELSE /\ inflight' = inflight \ {LinksReq(issue_key)}
            /\ tickets_task' =
                  [pc |-> "done",
                   ret |-> LinkedServiceTickets(MakeRequest(remote.links))]
            /\ UNCHANGED requests
    /\ UNCHANGED <<issue_key, remote, pc, issue_data, docs_task,
                   commits_task, result>>

\* lines 235-255: the refetch of the issue with its links is answered
LinksDone ==
    /\ UNCHANGED enrichVars
    /\ tickets_task.pc = "refetch"
    /\ LinksReq(issue_key) \in inflight
    /\ inflight' = inflight \ {LinksReq(issue_key)}
    /\ tickets_task' = [pc |-> "done",
                        ret |-> LinkedServiceTickets(MakeRequest(remote.links))]
    /\ UNCHANGED <<issue_key, remote, pc, issue_data, docs_task,
                   commits_task, requests, result>>

\* the outer gather returning on the first outcome
BranchesDoneFirst ==
    \/ docs_task.pc = "done"
    \/ commits_task.pc = "done"
    \/ tickets_task.pc = "done"

\* the outer gather of line 98 has an outcome for each branch
BranchesDone ==
    /\ docs_task.pc = "done"
    /\ commits_task.pc = "done"
    /\ tickets_task.pc = "done"

\* the outer gather without return_exceptions: a raising branch fails the
\* aggregation
AssembleFailFast ==
    /\ UNCHANGED enrichVars
    /\ pc = "gather"
    /\ BranchesDone
    /\ pc' = "done"
    /\ result' = IF Raised \in {docs_task.ret, commits_task.ret, tickets_task.ret}
                 THEN Raised
                 ELSE AssembleContext(issue_key, issue_data,
                                      docs_task.ret.val,
                                      commits_task.ret.val,
                                      tickets_task.ret.val)
    /\ UNCHANGED <<issue_key, remote, issue_data, docs_task, commits_task,
                   tickets_task, inflight, requests>>

\* lines 98-126: the outer gather returns and the context is assembled
Assemble ==
    /\ UNCHANGED enrichVars
    /\ pc = "gather"
    /\ BranchesDone
    /\ pc' = "done"
    /\ result' = AssembleContext(issue_key, issue_data,
                                 Absorb(docs_task.ret),
                                 Absorb(commits_task.ret),
                                 Absorb(tickets_task.ret))
    /\ UNCHANGED <<issue_key, remote, issue_data, docs_task, commits_task,
                   tickets_task, inflight, requests>>

\* main.py lines 116-140: the endpoint answers a request.  Line 120 calls
\* get_issue_context without await, so the coroutine is created and never
\* run, and context_data is the coroutine object
GetContext ==
    /\ pc = "start"
    /\ response = NoResponse
    /\ pc' = "never_awaited"
    /\ response' = GetContextResponse(Coroutine, ai_service, llm)
    /\ UNCHANGED <<issue_key, remote, issue_data, docs_task, commits_task,
                   tickets_task, inflight, requests, result, openai_api_key,
                   llm, enhanced>>

NotEnhanced ==
    [arg |-> None, ret |-> Pending]

\* the contexts enhance_with_ai is called with: an assembled context, and
\* the same with a null issue or with a null entry after its commits
EnhanceInputs(context) ==
    {context,
     [context EXCEPT !.issue = None],
     [context EXCEPT !.bitbucketCommits = Append(@, None)]}

\* a call of AIService().enhance_with_ai on an assembled context
Enhance ==
    /\ pc = "done"
    /\ result.kind = "value"
    /\ "error" \notin DOMAIN result.val
    /\ enhanced = NotEnhanced
    /\ \E context_data \in EnhanceInputs(result.val) :
          enhanced' = [arg |-> context_data,
                       ret |-> EnhanceWithAI(AIService(openai_api_key),
                                             context_data, llm)]
    /\ UNCHANGED <<issue_key, remote, pc, issue_data, docs_task,
                   commits_task, tickets_task, inflight, requests, result,
                   openai_api_key, llm, response>>

Next ==
    \/ GetIssueContext
    \/ IssueLookupDone
    \/ \E q \in 1..NumQueries : DocQueryDone(q)
    \/ DocsFanIn
    \/ ReposListed
    \/ CommitFetchDone
    \/ CommitsLoopStep
    \/ LinksDone
    \/ Assemble
    \/ GetContext
    \/ Enhance

---------------------------------------------------------------------------
(* The coroutines as functions of the answers: what each returns when      *)
(* every GET is answered at once, in program order                         *)

\* the for loop of lines 190-199 from repository i on, then lines 201-205
RECURSIVE CommitsLoop(_, _, _, _, _)
CommitsLoop(repos, answers, key, i, repo_commits) ==
    IF i > Len(repos) THEN Value(CollectCommits(repo_commits))
    ELSE IF ~({"slug", "name"} \subseteq DOMAIN repos[i]) THEN Raised
    ELSE CommitsLoop(repos, answers, key, i + 1,
            GatherCommitTasks(i,
                CommitsForRepo(MakeRequest(answers[i]), repos[i].name,
                               repos[i].slug, key)))

\* _get_bitbucket_commits
BitbucketCommits(listing, answers, key) ==
    LET repos_data == MakeRequest(listing) IN
    IF Falsy(repos_data) \/ "values" \notin DOMAIN repos_data
    THEN Value(<<>>)
    ELSE LET repos == Take(repos_data.values, RepoLimit) IN
         IF repos = <<>> THEN Raised
         ELSE CommitsLoop(repos, answers, key, 1, <<>>)

\* get_issue_context
IssueContext(key, answers) ==
    LET data == MakeRequest(answers.issue) IN
    IF Falsy(data) THEN Value(NotFound(key))
    ELSE IF ~HasProjectKey(data) THEN Raised
    ELSE AssembleContext(key, data,
            Absorb(ConfluenceDocs([q \in 1..NumQueries |->
                                      MakeRequest(answers.docs[q])])),
            Absorb(BitbucketCommits(answers.repos, answers.commits, key)),
            Absorb(LinkedServiceTickets(MakeRequest(answers.links))))

---------------------------------------------------------------------------
(* The upstream services: the answers an aggregation can get               *)

Ok(body) ==
    [net |-> "ok", status |-> 200, body |-> body]

Fail404 ==
    [net |-> "ok", status |-> 404, body |-> None]

Fail500 ==
    [net |-> "ok", status |-> 500, body |-> None]

NetErr ==
    [net |-> "error", status |-> 0, body |-> None]

\* a JSON object without any of the entries the code looks for
Unexpected ==
    [message |-> "unexpected"]

KeyUpper ==
    <<"A","B","C","-","1">>

KeyLower ==
    <<"a","b","c","-","1">>

\* GET .../rest/api/3/issue/{issue_key}
IssueBody(project_key) ==
    [fields |-> [project |-> [key |-> project_key],
                 summary |-> "fix null pointer",
                 status |-> [name |-> "Open"],
                 issuetype |-> [name |-> "Bug"]]]

IssueNoProject ==
    [fields |-> [summary |-> "fix null pointer"]]

IssueNoSummary ==
    [fields |-> [project |-> [key |-> "ABC"],
                 status |-> [name |-> "Open"],
                 issuetype |-> [name |-> "Bug"]]]

IssueOutcomes ==
    {Fail404, Fail500, NetErr, Ok(EmptyDict), Ok(Unexpected),
     Ok(IssueNoProject), Ok(IssueNoSummary), Ok(IssueBody("ABC")),
     Ok(IssueBody("XYZ"))}

\* GET .../rest/api/content/search: the document with this id, as query q
\* finds it
Doc(id, q) ==
    [id |-> id, title |-> <<"page", id, "found by", q>>, type |-> "page",
     version |-> [when |-> "2024-01-01"], _links |-> [webui |-> id]]

DocNoVersion(id, q) ==
    [id |-> id, title |-> <<"page", id, "found by", q>>, type |-> "page",
     _links |-> [webui |-> id]]

DocNoTitle(id) ==
    [id |-> id, type |-> "page", _links |-> [webui |-> id]]

\* page s of the search results
DocPage(s, q) ==
    [results |-> [n \in 1..DocWidth |-> Doc((DocWidth - 2) * (s - 1) + n, q)]]

\* results out of id order, with an id twice and a document without version
DocShuffled(q) ==
    [results |-> <<Doc(3, q), DocNoVersion(1, q), Doc(3, q), Doc(2, q)>>]

DocOutcomes(q) ==
    {Fail404, NetErr, Ok(Unexpected), Ok([results |-> <<>>]),
     Ok(DocShuffled(q)), Ok([results |-> <<Doc(1, q), DocNoTitle(2)>>])}
    \cup {Ok(DocPage(s, q)) : s \in 1..MaxDocStart}

\* GET .../projects/{project_key}/repos
Repo(i) ==
    [slug |-> <<"repo", i>>, name |-> <<"Repo", i>>]

RepoListing(n) ==
    [values |-> [i \in 1..n |-> Repo(i)]]

\* the second repository of the listing has no slug
RepoListingNoSlug ==
    [values |-> <<Repo(1), [name |-> <<"Repo", 2>>]>>]

\* GET .../repos/{repo_slug}/commits
MsgFixed ==
    <<"F","i","x","e","d"," ","A","B","C","-","1">>

MsgLower ==
    <<"a","b","c","-","1","2"," ","w","i","p">>

MsgOther ==
    <<"A","B","C","-","2">>

Commit(id, message) ==
    [id |-> id, message |-> message, author |-> [displayName |-> "dev"],
     authorTimestamp |-> 1000 + id]

CommitNoMessage(id) ==
    [id |-> id, author |-> [displayName |-> "dev"],
     authorTimestamp |-> 1000 + id]

CommitNoAuthorName(id, message) ==
    [id |-> id, message |-> message, author |-> EmptyDict,
     authorTimestamp |-> 1000 + id]

CommitNoId(message) ==
    [message |-> message, author |-> [displayName |-> "dev"],
     authorTimestamp |-> 1000]

\* commit lists of repository r; ids are distinct across repositories
CommitOne(r) ==
    [values |-> <<Commit(100 * r + 1, MsgFixed)>>]

CommitMixed(r) ==
    [values |-> <<Commit(100 * r + 1, MsgOther),
                  Commit(100 * r + 2, MsgLower),
                  CommitNoMessage(100 * r + 3),
                  CommitNoAuthorName(100 * r + 4, MsgFixed)>>]

CommitLong(r) ==
    [values |-> [n \in 1..MaxCommits |-> Commit(100 * r + n, MsgFixed)]]

CommitOutcomes(r) ==
    {Fail404, Ok(CommitOne(r)), Ok(CommitMixed(r)), Ok(CommitLong(r))}

\* answers that occur for the first repository only
CommitOddOutcomes ==
    {NetErr, Ok(Unexpected), Ok([values |-> <<>>]),
     Ok([values |-> <<CommitNoId(MsgFixed)>>]),
     Ok([values |-> <<CommitNoId(MsgOther)>>])}

\* GET .../rest/api/3/issue/{issue_key}?fields=issuelinks,project
TypeServiceRequest ==
    <<"S","e","r","v","i","c","e"," ","R","e","q","u","e","s","t">>

TypeIncident ==
    <<"I","N","C","I","D","E","N","T">>

TypeProblem ==
    <<"[","S","y","s","t","e","m","]"," ","P","r","o","b","l","e","m">>

TypeBug ==
    <<"B","u","g">>

Linked(key, type_name) ==
    [key |-> key,
     fields |-> [summary |-> "linked", status |-> [name |-> "Open"],
                 issuetype |-> [name |-> type_name],
                 priority |-> [name |-> "High"]]]

LinkedNoPriority(key, type_name) ==
    [key |-> key,
     fields |-> [summary |-> "linked", status |-> [name |-> "Open"],
                 issuetype |-> [name |-> type_name]]]

Outward(li) ==
    [type |-> "relates", outwardIssue |-> li]

Inward(li) ==
    [type |-> "relates", inwardIssue |-> li]

Links ==
    {Outward(Linked("SD-1", TypeServiceRequest)),
     Inward(LinkedNoPriority("SD-2", TypeIncident)),
     Inward(Linked("SD-3", TypeProblem)),
     Outward(Linked("ABC-7", TypeBug)),
     [type |-> "relates"]}

\* an outward issue without 'fields'
LinkNoFields ==
    Outward([key |-> "SD-9"])

RECURSIVE SeqsUpTo(_, _)
SeqsUpTo(S, n) ==
    IF n = 0 THEN {<<>>}
    ELSE LET shorter == SeqsUpTo(S, n - 1) IN
         shorter \cup {Append(s, x) : s \in shorter, x \in S}

LinkOutcomes ==
    {Fail404, Fail500, NetErr, Ok(Unexpected),
     Ok([fields |-> [project |-> "ABC"]]),
     Ok([fields |-> [issuelinks |-> <<LinkNoFields>>]])}
    \cup {Ok([fields |-> [issuelinks |-> l]]) : l \in SeqsUpTo(Links, MaxLinks)}

\* the repositories whose commits can be fetched
Fetched(repos) ==
    LET data == MakeRequest(repos) IN
    IF Falsy(data) \/ "values" \notin DOMAIN data THEN 0
    ELSE Min(RepoLimit, Len(data.values))

\* the sequences of length n whose k-th element is in sets[k]
RECURSIVE Product(_, _)
Product(sets, n) ==
    IF n = 0 THEN {<<>>}
    ELSE {Append(s, x) : s \in Product(sets, n - 1), x \in sets[n]}

\* every combination of the given answers; commits[n] are the answers for
\* the commits of the n-th listed repository
Worlds(keys, issues, docs, listings, commits, links) ==
    UNION { { [key |-> k,
               remote |-> [issue |-> i, docs |-> d, repos |-> r,
                           commits |-> c, links |-> l]] :
                k \in keys, i \in issues, l \in links,
                d \in Product(docs, NumQueries),
                c \in Product(commits, Fetched(r)) }
            : r \in listings }

\* the answers of a branch the inputs are not varied for
PlainIssue ==
    {Ok(IssueBody("ABC"))}

PlainDocs ==
    <<{Ok(DocPage(1, 1))}, {Fail404}, {Ok(DocPage(2, 3))}>>

PlainListings ==
    {Ok(RepoListing(1))}

PlainCommits ==
    <<{Ok(CommitOne(1))}>>

PlainLinks ==
    {Ok([fields |-> [issuelinks |->
            <<Outward(Linked("SD-1", TypeServiceRequest))>>]])}

\* every answer to the lookup, each branch succeeding, failing and raising
AggregatorWorlds ==
    Worlds({KeyUpper}, IssueOutcomes,
           <<{Fail404, Ok(DocPage(1, 1))},
             {NetErr, Ok(DocPage(2, 2))},
             {Fail500, Ok([results |-> <<Doc(1, 3), DocNoTitle(2)>>])}>>,
           {Fail500, Ok(RepoListing(0)), Ok(RepoListing(1)), Ok(RepoListing(2))},
           <<{NetErr, Ok(CommitOne(1))}, {NetErr, Ok(CommitOne(2))}>>,
           {Fail500, Ok([fields |-> [issuelinks |-> <<LinkNoFields>>]])}
              \cup PlainLinks)

DocWorlds ==
    Worlds({KeyUpper}, PlainIssue,
           <<DocOutcomes(1), DocOutcomes(2), DocOutcomes(3)>>,
           PlainListings, PlainCommits, PlainLinks)

CommitWorlds ==
    Worlds({KeyUpper, KeyLower}, PlainIssue, PlainDocs,
           {Fail404, NetErr, Ok(Unexpected), Ok(RepoListingNoSlug)}
              \cup {Ok(RepoListing(n)) : n \in 0..MaxRepos},
           [r \in 1..RepoLimit |->
               CommitOutcomes(r) \cup (IF r = 1 THEN CommitOddOutcomes ELSE {})],
           PlainLinks)

LinkWorlds ==
    Worlds({KeyUpper}, PlainIssue, PlainDocs,
           PlainListings, PlainCommits, LinkOutcomes)

\* every fetch failing or succeeding, listings of every length
RequestWorlds ==
    Worlds({KeyUpper}, {Fail404, NetErr} \cup PlainIssue,
           <<{Fail500, Ok(DocPage(1, 1))},
             {Fail404, Ok(DocPage(1, 2))},
             {NetErr, Ok(DocPage(2, 3))}>>,
           {Fail500} \cup {Ok(RepoListing(n)) : n \in 0..MaxRepos},
           [r \in 1..RepoLimit |-> {NetErr, Ok(CommitOne(r))}],
           {Fail404} \cup PlainLinks)

\* message padded to n characters
Padded(message, n) ==
    message \o [k \in 1..(n - Len(message)) |-> "."]

\* long and short messages, long ones also after the third commit
CommitVerbose(r) ==
    [values |-> <<Commit(100 * r + 1, Padded(MsgFixed, LongMessage + 1)),
                  Commit(100 * r + 2, Padded(MsgFixed, LongMessage)),
                  Commit(100 * r + 3, Padded(MsgFixed, LongMessage + 1)),
                  Commit(100 * r + 4, Padded(MsgFixed, LongMessage + 1))>>]

CommitVerbosePair(r) ==
    [values |-> <<Commit(100 * r + 1, Padded(MsgFixed, LongMessage + 1)),
                  Commit(100 * r + 2, MsgFixed)>>]

\* every combination of outcomes of the summary call, the suggestions
\* call and the per-commit calls
LMWorlds ==
    {[summary |-> a, suggestions |-> b, commits |-> c] :
        a \in {LMError, NullCompletion,
             Completion(
              <<" ","O","n"," ","t","r","a","c","k","."," ">>)},
        b \in {LMError, NullCompletion,
             Completion(<<" ", "\n", " ", "\n">>),
             Completion(
              <<"R","e","t","e","s","t">>),
             Completion(
              <<"-"," ","C","h","e","c","k"," ","d","o","c","s","\n","\n","*"," ",
                "A","s","k"," ","-"," ","t","e","a","m","\n","U+2022"," ","S","h",
                "i","p"," ","i","t","\n","-"," ","M","o","r","e">>)},
        c \in [1..SummarizedCommits ->
        {LMError,
             Completion(
              <<"F","i","x"," ","l","o","g","i","n"," ">>)}]}

PlainLM ==
    [summary |-> Completion(
      <<" ","O","n"," ","t","r","a","c","k","."," ">>),
     suggestions |-> Completion(
      <<"R","e","t","e","s","t">>),
     commits |-> [i \in 1..SummarizedCommits |-> LMError]]

\* the lookup failing or not, commits with short and long messages
EnrichWorlds ==
    Worlds({KeyUpper}, {Fail404} \cup PlainIssue, PlainDocs, PlainListings,
           <<{Ok(CommitOne(1)), Ok(CommitVerbose(1)),
              Ok(CommitVerbosePair(1))}>>,
           PlainLinks)

\* every answer to the lookup; each branch with a slow, a failing and a
\* succeeding fetch
LiveWorlds ==
    Worlds({KeyUpper}, IssueOutcomes,
           <<{Fail404, Ok(DocPage(1, 1))}, {Ok(DocPage(2, 2))}, {Fail500}>>,
           {Fail500, Ok(RepoListing(0)), Ok(RepoListing(2))},
           <<{NetErr, Ok(CommitOne(1))}, {Ok(CommitOne(2))}>>,
           {Fail500} \cup PlainLinks)

---------------------------------------------------------------------------
(* Specifications                                                          *)

\* the state when get_issue_context is about to be called
InitWith(worlds, keys, lms) ==
    /\ \E w \in worlds : issue_key = w.key /\ remote = w.remote
    /\ pc = "start"
    /\ issue_data = None
    /\ docs_task = DocsIdle
    /\ commits_task = CommitsIdle
    /\ tickets_task = TicketsIdle
    /\ inflight = {}
    /\ requests = <<>>
    /\ result = Pending
    /\ openai_api_key \in keys
    /\ llm \in lms
    /\ enhanced = NotEnhanced
    /\ response = NoResponse

\* the aggregation alone: the key configured, every model call answered
InitIn(worlds) ==
    InitWith(worlds, {ApiKey}, {PlainLM})

Init ==
    InitIn(AggregatorWorlds)

InitDocs ==
    InitIn(DocWorlds)

InitCommits ==
    InitIn(CommitWorlds)

InitLinks ==
    InitIn(LinkWorlds)

\* the aggregator, with every answer to the lookup and every branch outcome
Spec ==
    Init /\ [][Next]_vars

\* document search over every combination of search results
SpecDocs ==
    InitDocs /\ [][Next]_vars

\* commit search over every listing and every combination of commit lists
SpecCommits ==
    InitCommits /\ [][Next]_vars

\* linked-ticket extraction over every link list
SpecLinks ==
    InitLinks /\ [][Next]_vars

\* the GETs of an aggregation, every fetch failing or succeeding
SpecRequests ==
    InitIn(RequestWorlds) /\ [][Next]_vars

\* the endpoint and the enrichment, with and without the key, over every
\* combination of outcomes of the model calls
SpecEnrich ==
    InitWith(EnrichWorlds, {None, ApiKey}, LMWorlds) /\ [][Next]_vars

\* every issued GET is answered and the event loop runs every coroutine
\* that can run
Fairness ==
    /\ WF_vars(IssueLookupDone)
    /\ \A q \in 1..NumQueries : WF_vars(DocQueryDone(q))
    /\ WF_vars(DocsFanIn)
    /\ WF_vars(ReposListed)
    /\ WF_vars(CommitFetchDone)
    /\ WF_vars(CommitsLoopStep)
    /\ WF_vars(LinksDone)
    /\ WF_vars(Assemble)

\* the aggregator under fair scheduling
SpecLive ==
    InitIn(LiveWorlds) /\ [][Next]_vars /\ Fairness

---------------------------------------------------------------------------
(* Properties                                                              *)

\* C1: when the issue lookup yields no data (404, another non-200 status
\* or a transport exception), get_issue_context returns the 'not found or
\* inaccessible' result, and the lookup is the only GET ever issued.
C1_NotFoundStopsAggregation ==
    (remote.issue.net = "error" \/ remote.issue.status # 200) =>
        /\ pc # "gather"
        /\ \A n \in 1..Len(requests) : requests[n].kind = "issue"
        /\ \A r \in inflight : r.kind = "issue"
        /\ Len(requests) <= 1
        /\ pc = "done" =>
              result = Value([error |-> <<"Issue ", issue_key,
                                         " not found or inaccessible">>])

C1_Witness ==
    /\ remote.issue = NetErr
    /\ pc = "done"
    /\ "error" \in DOMAIN result.val
    /\ Len(requests) = 1

\* C2: once the lookup has delivered a complete issue, get_issue_context
\* returns a context whatever the branches did: the field of a branch that
\* raised is empty, the field of any other branch is what that branch
\* returned; with all three document queries failing and commits and
\* tickets found, the document list is empty and commits and tickets are
\* the non-empty ones found.
C2_BranchIsolation ==
    (pc = "done" /\ HasProjectKey(issue_data) /\ HasIssueFields(issue_data)) =>
        /\ result.kind = "value"
        /\ {"confluenceDocs", "bitbucketCommits", "serviceTickets"}
              \subseteq DOMAIN result.val
        /\ result.val.confluenceDocs =
              IF docs_task.ret.kind = "raised" THEN <<>> ELSE docs_task.ret.val
        /\ result.val.bitbucketCommits =
              IF commits_task.ret.kind = "raised" THEN <<>>
              ELSE commits_task.ret.val
        /\ result.val.serviceTickets =
              IF tickets_task.ret.kind = "raised" THEN <<>>
              ELSE tickets_task.ret.val
        /\ (\A q \in 1..NumQueries :
               remote.docs[q].net = "error" \/ remote.docs[q].status # 200)
              => result.val.confluenceDocs = <<>>
        /\ (remote.repos.net = "error" \/ remote.repos.status # 200)
              => result.val.bitbucketCommits = <<>>
        /\ (remote.links.net = "error" \/ remote.links.status # 200)
              => result.val.serviceTickets = <<>>

C2_Witness ==
    /\ pc = "done"
    /\ result.kind = "value"
    /\ \A q \in 1..NumQueries :
          remote.docs[q].net = "error" \/ remote.docs[q].status # 200
    /\ commits_task.ret.kind = "value" /\ commits_task.ret.val # <<>>
    /\ tickets_task.ret.kind = "value" /\ tickets_task.ret.val # <<>>
    /\ result.val.confluenceDocs = <<>>
    /\ result.val.bitbucketCommits = commits_task.ret.val
    /\ result.val.serviceTickets = tickets_task.ret.val

\* C3: get_issue_context always ends with a context or with the 'not
\* found' result; it never raises.
C3_NeverRaises ==
    pc = "done" => result.kind = "value"

\* C4: the documents _get_confluence_docs returns are the first DocCap
\* first occurrences (by id) of the three queries' results taken in query
\* order; no id occurs twice.
C4_DocsDedupOrderCap ==
    (docs_task.pc = "done" /\ docs_task.ret.kind = "value") =>
        LET found(q) ==
                IF /\ remote.docs[q].net = "ok"
                   /\ remote.docs[q].status = 200
                   /\ "results" \in DOMAIN remote.docs[q].body
                THEN remote.docs[q].body.results
                ELSE <<>>
            cat == found(1) \o found(2) \o found(3)
            first == {i \in 1..Len(cat) :
                         \A j \in 1..(i - 1) : cat[j].id # cat[i].id}
            kth(k) == CHOOSE i \in first :
                         Cardinality({j \in first : j <= i}) = k
            docs == docs_task.ret.val
        IN
        /\ Len(docs) <= 8
        /\ Len(docs) = IF Cardinality(first) < 8 THEN Cardinality(first) ELSE 8
        /\ \A m, n \in 1..Len(docs) : m # n => docs[m].id # docs[n].id
        /\ \A k \in 1..Len(docs) :
              /\ docs[k].id = cat[kth(k)].id
              /\ docs[k].title = cat[kth(k)].title

C4_Witness ==
    /\ docs_task.pc = "done"
    /\ docs_task.ret.kind = "value"
    /\ Len(docs_task.ret.val) = 8
    /\ Len(CandidateDocs(docs_task.results)) > 10
    /\ \E k \in 1..8 : docs_task.ret.val[k].title[4] = 3
    /\ \E k \in 1..8 : docs_task.ret.val[k].title[4] = 2
    /\ docs_task.ret.val[1].id = 3

\* C5: with a listing of one or more repositories, _get_bitbucket_commits
\* returns the first CommitCap of the matching commits of the first
\* RepoLimit repositories, concatenated in listing order.
C5_CommitsOfAllRepos ==
    (/\ commits_task.pc = "done"
     /\ commits_task.ret.kind = "value"
     /\ Fetched(remote.repos) >= 1) =>
        commits_task.ret.val =
            Take(ExtendAll([r \in 1..Fetched(remote.repos) |->
                    CommitsForRepo(MakeRequest(remote.commits[r]),
                                   remote.repos.body.values[r].name,
                                   remote.repos.body.values[r].slug,
                                   issue_key)]),
                 CommitCap)

\* C6: every commit _get_bitbucket_commits returns mentions the issue key
\* (case-insensitively), there are at most CommitCap of them, and the
\* commits of a repository come before those of the repositories listed
\* after it.
C6_CommitsMatchCapOrder ==
    (commits_task.pc = "done" /\ commits_task.ret.kind = "value") =>
        LET commits == commits_task.ret.val IN
        /\ Len(commits) <= 15
        /\ \A n \in 1..Len(commits) :
              Contains(Lower(commits[n].message), Lower(issue_key))
        /\ \A m, n \in 1..Len(commits) :
              m < n => commits[m].repository[2] <= commits[n].repository[2]

C6_Witness ==
    /\ commits_task.pc = "done"
    /\ commits_task.ret.kind = "value"
    /\ issue_key = KeyLower
    /\ Len(commits_task.repos) = 3
    /\ Len(commits_task.ret.val) = 15
    /\ Len(remote.commits[3].body.values) > 15

\* C7: over two or three repositories, when the commit fetch of one of them
\* yields no data, the result is the matching commits of the other
\* repositories, as if the failing one had no commits.
C7_FailingRepoIsolated ==
    (/\ commits_task.pc = "done"
     /\ commits_task.ret.kind = "value"
     /\ Fetched(remote.repos) >= 2
     /\ \E f \in 1..Fetched(remote.repos) :
           remote.commits[f].net = "error" \/ remote.commits[f].status # 200) =>
        LET ok == {r \in 1..Fetched(remote.repos) :
                      /\ remote.commits[r].net = "ok"
                      /\ remote.commits[r].status = 200
                      /\ "values" \in DOMAIN remote.commits[r].body}
            matching(r) ==
                MatchingCommits(remote.commits[r].body.values, issue_key)
        IN
        \A r \in ok : \A n \in 1..Len(matching(r)) :
            "id" \in DOMAIN matching(r)[n] =>
                \E m \in 1..Len(commits_task.ret.val) :
                    commits_task.ret.val[m].id = matching(r)[n].id

\* C8: _get_linked_service_tickets returns, in link order, one record for
\* each link whose linked issue (outward, else inward) has a type name
\* containing service, request, incident or problem in any case, and
\* nothing else; without links it returns the empty sequence.
C8_ServiceTickets ==
    (/\ tickets_task.pc = "done"
     /\ tickets_task.ret.kind = "value"
     /\ remote.links.net = "ok" /\ remote.links.status = 200
     /\ "fields" \in DOMAIN remote.links.body) =>
        LET links == IF "issuelinks" \in DOMAIN remote.links.body.fields
                     THEN remote.links.body.fields.issuelinks
                     ELSE <<>>
            other(n) == IF "outwardIssue" \in DOMAIN links[n]
                        THEN links[n].outwardIssue
                        ELSE links[n].inwardIssue
            service == {n \in 1..Len(links) :
                /\ {"outwardIssue", "inwardIssue"} \cap DOMAIN links[n] # {}
                /\ \E k \in 1..Len(Keywords) :
                      Contains(Upper(other(n).fields.issuetype.name),
                               Upper(Keywords[k]))}
            kth(k) == CHOOSE n \in service :
                         Cardinality({j \in service : j <= n}) = k
            tickets == tickets_task.ret.val
        IN
        /\ Len(tickets) = Cardinality(service)
        /\ links = <<>> => tickets = <<>>
        /\ \A k \in 1..Len(tickets) :
              /\ tickets[k].key = other(kth(k)).key
              /\ tickets[k].issueType = other(kth(k)).fields.issuetype.name

C8_Witness ==
    /\ tickets_task.pc = "done"
    /\ tickets_task.ret.kind = "value"
    /\ remote.links.net = "ok" /\ remote.links.status = 200
    /\ "fields" \in DOMAIN remote.links.body
    /\ "issuelinks" \in DOMAIN remote.links.body.fields
    /\ Len(remote.links.body.fields.issuelinks) = 3
    /\ remote.links.body.fields.issuelinks[2] =
          Outward(Linked("ABC-7", TypeBug))
    /\ Len(tickets_task.ret.val) = 2
    /\ tickets_task.ret.val[1].key = "SD-2"
    /\ tickets_task.ret.val[2].key = "SD-1"

\* C9: no GET of a branch is issued before the lookup has been answered
\* with an issue, and document search and commit search use the project
\* key of that answer.
C9_LookupPrecedesBranches ==
    /\ pc \in {"start", "lookup"} =>
          \A n \in 1..Len(requests) : requests[n].kind = "issue"
    /\ \A n \in 1..Len(requests) :
          requests[n].kind # "issue" =>
             /\ requests[1].kind = "issue"
             /\ \A r \in inflight : r.kind # "issue"
             /\ remote.issue.net = "ok" /\ remote.issue.status = 200
             /\ \/ requests[n].kind = "links"
                \/ requests[n].kind = "doc" /\ requests[n].idx < 3
                \/ requests[n].project = remote.issue.body.fields.project.key

C9_Witness ==
    /\ pc = "done"
    /\ remote.issue = Ok(IssueBody("XYZ"))
    /\ \E n \in 1..Len(requests) :
          /\ requests[n].kind = "commits"
          /\ requests[n].idx = 2
          /\ requests[n].project = "XYZ"
    /\ \E n \in 1..Len(requests) :
          /\ requests[n].kind = "doc"
          /\ requests[n].project = "XYZ"

\* C10: get_issue_context returns (or raises) after its gather only when
\* all three branches have an outcome and no GET is in flight.
C10_FanInBarrier ==
    (pc = "done" /\ Len(requests) > 1) =>
        /\ docs_task.pc = "done" /\ docs_task.ret # Pending
        /\ commits_task.pc = "done" /\ commits_task.ret # Pending
        /\ tickets_task.pc = "done" /\ tickets_task.ret # Pending
        /\ docs_task.answered = 1..3
        /\ inflight = {}

C10_Witness ==
    /\ pc = "done"
    /\ result.kind = "value"
    /\ Len(requests) = 8
    /\ inflight = {}
    /\ docs_task.pc = "done"
    /\ commits_task.pc = "done"
    /\ tickets_task.pc = "done"

\* C11: for fixed answers of the upstream services, what get_issue_context
\* returns, and what each branch returns, does not depend on the order in
\* which the GETs are answered: it is the value obtained when they are
\* answered in program order.
C11_OrderIndependent ==
    /\ pc = "done" => result = IssueContext(issue_key, remote)
    /\ docs_task.pc = "done" =>
          docs_task.ret = ConfluenceDocs([q \in 1..NumQueries |->
                                            MakeRequest(remote.docs[q])])
    /\ commits_task.pc = "done" =>
          commits_task.ret =
              BitbucketCommits(remote.repos, remote.commits, issue_key)
    /\ tickets_task.pc = "done" =>
          tickets_task.ret = LinkedServiceTickets(MakeRequest(remote.links))

C11_Witness ==
    /\ pc = "done"
    /\ result.kind = "value"
    /\ Len(CandidateDocs(docs_task.results)) = 14
    /\ Len(result.val.confluenceDocs) = 8
    /\ result.val.confluenceDocs[1].title[4] = 1
    /\ result.val.confluenceDocs[4].title[4] = 2
    /\ result.val.confluenceDocs[8].title[4] = 3
    /\ result.val.bitbucketCommits # <<>>
    /\ result.val.serviceTickets # <<>>

C16_FetchesIssuedTogether ==
    \A i \in 1..(Fetched(remote.repos) - 1) :
        (\E n \in 1..Len(requests) :
            requests[n].kind = "commits" /\ requests[n].idx = i)
        => \E n \in 1..Len(requests) :
              requests[n].kind = "commits" /\ requests[n].idx = i + 1

\* C17: _get_bitbucket_commits returns a sequence and does not raise,
\* for a failed listing, a listing without 'values', a listing of no
\* repository and a listing of one or more repositories.
C17_CommitSearchNeverRaises ==
    (/\ commits_task.pc = "done"
     /\ LET repos_data == MakeRequest(remote.repos) IN
           (~Falsy(repos_data) /\ "values" \in DOMAIN repos_data) =>
              \A i \in 1..Len(repos_data.values) :
                 {"slug", "name"} \subseteq DOMAIN repos_data.values[i])
    => commits_task.ret.kind = "value"

\* C18: document search does not raise whichever of its queries fail
\* (no data, or an answer without 'results'); a failed query contributes
\* nothing, the result is that of the other queries alone, and it is
\* empty when all three fail.
C18_FailedQueriesContributeNothing ==
    LET failed(q) == \/ remote.docs[q].net = "error"
                     \/ remote.docs[q].status # 200
                     \/ "results" \notin DOMAIN remote.docs[q].body
        wellformed(q) == \A i \in 1..Len(remote.docs[q].body.results) :
                            {"id", "title", "type", "_links"} \subseteq
                                DOMAIN remote.docs[q].body.results[i]
    IN
    (/\ docs_task.pc = "done"
     /\ \A q \in 1..NumQueries : ~failed(q) => wellformed(q))
    => /\ docs_task.ret.kind = "value"
       /\ docs_task.ret =
             ConfluenceDocs([q \in 1..NumQueries |->
                               IF failed(q) THEN [results |-> <<>>]
                               ELSE remote.docs[q].body])
       /\ \A k \in 1..Len(docs_task.ret.val) :
             ~failed(docs_task.ret.val[k].title[4])
       /\ (\A q \in 1..NumQueries : failed(q)) => docs_task.ret.val = <<>>

C18_Witness ==
    /\ docs_task.pc = "done"
    /\ remote.docs[1] = NetErr
    /\ remote.docs[2] = Ok(Unexpected)
    /\ remote.docs[3] = Ok(DocPage(2, 3))
    /\ docs_task.ret.kind = "value"
    /\ Len(docs_task.ret.val) = DocWidth
    /\ \A k \in 1..Len(docs_task.ret.val) : docs_task.ret.val[k].title[4] = 3

\* C19: when the link refetch yields no data or an answer without
\* 'fields', _get_linked_service_tickets returns the empty sequence, also
\* though the lookup of the same issue succeeded.
C19_RefetchFailureYieldsEmpty ==
    (/\ tickets_task.pc = "done"
     /\ \/ remote.links.net = "error"
        \/ remote.links.status # 200
        \/ "fields" \notin DOMAIN remote.links.body)
    => /\ tickets_task.ret.kind = "value"
       /\ tickets_task.ret.val = <<>>

C19_Witness ==
    /\ tickets_task.pc = "done"
    /\ remote.issue.status = 200
    /\ ~Falsy(issue_data)
    /\ remote.links = Fail500
    /\ tickets_task.ret = Value(<<>>)

\* C20: no GET is issued twice in one aggregation, whatever it is
\* answered; there are at most 9 GETs, commits are fetched from the first
\* 3 listed repositories only, and a failed lookup is the only GET of its
\* aggregation.
C20_NoRetries ==
    /\ \A m, n \in 1..Len(requests) : m # n => requests[m] # requests[n]
    /\ \A n \in 1..Len(requests) :
          /\ requests[n].kind \in {"issue", "doc", "repos", "commits", "links"}
          /\ requests[n].kind = "doc" => requests[n].idx \in 1..3
          /\ requests[n].kind = "commits" => requests[n].idx \in 1..3
          /\ requests[n].kind \in {"issue", "repos", "links"} =>
                requests[n].idx = 0
    /\ Len(requests) <= 9
    /\ (pc = "done"
          /\ (remote.issue.net = "error" \/ remote.issue.status # 200))
       => Len(requests) = 1

C20_Witness ==
    /\ pc = "done"
    /\ remote.repos.net = "ok"
    /\ remote.repos.status = 200
    /\ Len(remote.repos.body.values) > RepoLimit
    /\ remote.commits[1] = NetErr
    /\ remote.docs[2] = Fail404
    /\ remote.links = Fail404
    /\ Len(requests) = 9

\* C13: without an API key the context the endpoint delivers has aiSummary
\* "AI features not configured" and aiSuggestions [], and its issue,
\* documents, commits and service tickets are those of the aggregation.
C13_DisabledDeliversSentinel ==
    LET context == IssueContext(issue_key, remote) IN
    (/\ response # NoResponse
     /\ openai_api_key = None
     /\ context.kind = "value"
     /\ "error" \notin DOMAIN context.val)
    => /\ response.status = 200
       /\ "aiSummary" \in DOMAIN response.body
       /\ response.body.aiSummary = NotConfigured
       /\ "aiSuggestions" \in DOMAIN response.body
       /\ response.body.aiSuggestions = <<>>
       /\ response.body.issue = context.val.issue
       /\ response.body.confluenceDocs = context.val.confluenceDocs
       /\ response.body.bitbucketCommits = context.val.bitbucketCommits
       /\ response.body.serviceTickets = context.val.serviceTickets

\* C14: with the key configured enhance_with_ai returns, whichever model
\* calls fail: aiSummary is a str, aiSuggestions a list, and issue,
\* confluenceDocs and serviceTickets are those of its argument.
C14_EnrichmentNeverRaises ==
    (enhanced # NotEnhanced /\ openai_api_key # None)
    => /\ enhanced.ret.kind = "value"
       /\ {"aiSummary", "aiSuggestions"} \subseteq DOMAIN enhanced.ret.val
       /\ DOMAIN enhanced.ret.val.aiSummary =
             1..Len(enhanced.ret.val.aiSummary)
       /\ enhanced.ret.val.aiSummary # <<>>
       /\ DOMAIN enhanced.ret.val.aiSuggestions =
             1..Len(enhanced.ret.val.aiSuggestions)
       /\ enhanced.ret.val.issue = enhanced.arg.issue
       /\ enhanced.ret.val.confluenceDocs = enhanced.arg.confluenceDocs
       /\ enhanced.ret.val.serviceTickets = enhanced.arg.serviceTickets

C14_Witness ==
    /\ enhanced # NotEnhanced
    /\ openai_api_key # None
    /\ enhanced.arg = result.val
    /\ llm.summary = LMError
    /\ llm.suggestions = NullCompletion
    /\ \A i \in 1..SummarizedCommits : llm.commits[i] = LMError
    /\ Len(enhanced.arg.bitbucketCommits) > SummarizedCommits
    /\ enhanced.ret.kind = "value"
    /\ enhanced.ret.val.aiSummary = UnableToSummarize
    /\ enhanced.ret.val.aiSuggestions = DefaultSuggestions
    /\ enhanced.ret.val.bitbucketCommits[1].aiSummary =
          Take(Padded(MsgFixed, LongMessage + 1), FallbackLen) \o <<".", ".", ".">>

\* C15: the endpoint responds 404 when the aggregator reports the issue
\* not found, 200 with the aggregated context, lastUpdated and aiEnabled
\* (whether the key is configured) when it assembles one, and 500 only on
\* an unexpected error.
C15_EndpointStatus ==
    LET context == IssueContext(issue_key, remote) IN
    (response # NoResponse)
    => IF context.kind = "raised" THEN response.status = 500
       ELSE IF "error" \in DOMAIN context.val THEN response.status = 404
       ELSE /\ response.status = 200
            /\ {"issue", "confluenceDocs", "bitbucketCommits",
                "serviceTickets", "lastUpdated", "aiEnabled"} \subseteq
                   DOMAIN response.body
            /\ response.body.issue = context.val.issue
            /\ response.body.confluenceDocs = context.val.confluenceDocs
            /\ Len(response.body.bitbucketCommits) =
                  Len(context.val.bitbucketCommits)
            /\ response.body.serviceTickets = context.val.serviceTickets
            /\ response.body.aiEnabled = (openai_api_key # None)

\* C21: with the key configured, the commits that get an aiSummary are
\* exactly the first 3 commits, in sequence order, whose message is
\* longer than 100 characters, wherever they are in the sequence; when
\* the per-commit model call fails the aiSummary is the first 80
\* characters of the message followed by "...".
C21_FirstThreeLongSummarized ==
    (/\ enhanced # NotEnhanced
     /\ openai_api_key # None
     /\ enhanced.arg = result.val)
    => LET before == enhanced.arg.bitbucketCommits
           after == enhanced.ret.val.bitbucketCommits
           long(j) == Len(before[j].message) > LongMessage
           rank(j) == Cardinality({k \in 1..j : long(k)})
       IN  /\ Len(after) = Len(before)
           /\ \A j \in 1..Len(before) :
                 /\ ("aiSummary" \in DOMAIN after[j])
                       <=> (long(j) /\ rank(j) <= SummarizedCommits)
                 /\ (/\ "aiSummary" \in DOMAIN after[j]
                     /\ \A i \in 1..SummarizedCommits :
                           llm.commits[i] = LMError)
                    => after[j].aiSummary =
                          Take(before[j].message, FallbackLen)
                             \o <<".", ".", ".">>

\* C22: on every path through enhance_with_ai (no key; key and every
\* model call answered; a per-commit call failing; the whole stage
\* failing) the commits after the call are as many as before, in the same
\* order, each with the fields and values it had: enrichment only ever
\* adds an aiSummary to a commit.
C22_CommitsPreserved ==
    (enhanced # NotEnhanced)
    => LET before == enhanced.arg.bitbucketCommits
           after == enhanced.ret.val.bitbucketCommits
       IN  /\ enhanced.ret.kind = "value"
           /\ Len(after) = Len(before)
           /\ \A j \in 1..Len(before) :
                 /\ DOMAIN before[j] \subseteq DOMAIN after[j]
                 /\ DOMAIN after[j] \subseteq DOMAIN before[j] \cup {"aiSummary"}
                 /\ \A f \in DOMAIN before[j] : after[j][f] = before[j][f]
           /\ openai_api_key = None => after = before

\* the whole stage fails after the first commit got its aiSummary
C22_Witness ==
    /\ enhanced # NotEnhanced
    /\ openai_api_key # None
    /\ Len(enhanced.arg.bitbucketCommits) = SummarizedCommits
    /\ enhanced.arg.bitbucketCommits[SummarizedCommits] = None
    /\ enhanced.ret.val.aiSummary = TemporarilyUnavailable
    /\ "aiSummary" \in DOMAIN enhanced.ret.val.bitbucketCommits[1]
    /\ enhanced.ret.val.bitbucketCommits[2] = enhanced.arg.bitbucketCommits[2]

\* C23: after enhance_with_ai returns with the key configured,
\* aiSuggestions holds at most 3 entries, each a non-empty line of the
\* model output (as it is, or without its leading bullet marker), in
\* output order; it is the 3 default suggestions when the model call fails
\* or yields no non-empty line, and empty when the whole stage fails.
C23_SuggestionsAreOutputLines ==
    (enhanced # NotEnhanced /\ openai_api_key # None)
    => LET suggestions == enhanced.ret.val.aiSuggestions
           lines == Split(llm.suggestions.content, "\n")
           kept == {i \in 1..Len(lines) : Strip(lines[i]) # <<>>}
           nth(k) == Strip(lines[CHOOSE i \in kept :
                                   Cardinality({j \in kept : j <= i}) = k])
           unmarked(t) == IF t[1] \in {"-", "U+2022", "*"}
                          THEN LStrip(Tail(t))
                          ELSE t
       IN  IF TryEnhance(AIService(openai_api_key), enhanced.arg, llm).raised
           THEN suggestions = <<>>
           ELSE IF llm.suggestions.kind # "text" \/ kept = {}
           THEN suggestions = DefaultSuggestions
           ELSE /\ Len(suggestions) = Min(SuggestionCap, Cardinality(kept))
                /\ \A k \in 1..Len(suggestions) :
                      /\ suggestions[k] # <<>>
                      /\ suggestions[k] \in {nth(k), unmarked(nth(k))}

\* C24: when every issued GET is answered and scheduling is fair, an
\* aggregation that has started ends with the not-found result or with an
\* assembled context.
C24_AggregationTerminates ==
    (pc = "lookup") ~> (pc = "done" /\ result.kind = "value")

====
